---- MODULE Spec2Model ----
(***************************************************************************)
(* Lavalink-Monitor, utils.py: the health classifier get_health_emoji, the *)
(* aggregator get_overall_health (a counting loop over the node records    *)
(* followed by a ratio decision) and the formatting helpers format_uptime, *)
(* truncate_string and calculate_percentage.                               *)
(*                                                                         *)
(* Numbers are exact rationals [num, den] in lowest terms with den > 0, so *)
(* Python's true division and multiplication are computed, not assumed;    *)
(* the rounding of binary floating point is not modelled.  Strings are     *)
(* sequences of one-character strings.  Python's None is the record None,  *)
(* a raised exception is a record [raise |-> name].                        *)
(***************************************************************************)
EXTENDS Integers, Sequences, FiniteSets, TLC

VARIABLES
    HEALTH_THRESHOLDS,  \* config.HEALTH_THRESHOLDS, the imported threshold table
    call,               \* the function called and its arguments
    ret,                \* what the call returned or raised; NoReturn while it runs
    pc,                 \* get_overall_health: the statement about to run
    node,               \* get_overall_health: the loop variable `node`; None before
                        \* the loop and once an iteration has made its last read
    system_data,        \* get_overall_health: the argument system_data
    critical_count,     \* get_overall_health: local critical_count
    moderate_count,     \* get_overall_health: local moderate_count
    total_metrics,      \* get_overall_health: local total_metrics
    online_nodes,       \* history: how many online node records the loop has met
    zero_allocated_met  \* history: one of them had stats.memory.allocated == 0

vars == <<HEALTH_THRESHOLDS, call, ret, pc, node, system_data, critical_count,
          moderate_count, total_metrics, online_nodes, zero_allocated_met>>

healthVars == <<pc, node, system_data, critical_count, moderate_count,
                total_metrics, online_nodes, zero_allocated_met>>

----------------------------------------------------------------------------
(* Bounds of the model.                                                    *)

\* Online node records one call of get_overall_health meets at most.
MaxOnlineNodes == 10
\* Longest text given to truncate_string.
MaxTextLen == 6
\* Largest max_length given to truncate_string.
MaxLength == 7
\* Largest number of whole days in a format_uptime input.
MaxDays == 2
\* Largest absolute value of the arguments of calculate_percentage.
MaxOperand == 6
\* Metric values given to get_health_emoji directly: 5 * k and 5 * k + 1/2
\* for k up to this.
MaxValueSteps == 22

----------------------------------------------------------------------------
(* Python values.                                                          *)

None == [none |-> TRUE]
NoReturn == [running |-> TRUE]
ZeroDivisionError == [raise |-> "ZeroDivisionError"]
IsRaise(v) == "raise" \in DOMAIN v
Return(v) == [value |-> v]
\* The outcome of a call whose result is a number or a raised exception.
Outcome(v) == IF IsRaise(v) THEN v ELSE Return(v)

Abs(n) == IF n < 0 THEN -n ELSE n

RECURSIVE GCD(_, _)
GCD(a, b) == IF b = 0 THEN a ELSE GCD(b, a % b)

\* The rational n/d, d # 0, in lowest terms with a positive denominator.
Rat(n, d) ==
    LET g == GCD(Abs(n), Abs(d))
        s == IF d < 0 THEN -1 ELSE 1
    IN  [num |-> s * (n \div g), den |-> s * (d \div g)]

Num(n) == [num |-> n, den |-> 1]

\* a * b; an exception in an operand propagates.
Mul(a, b) ==
    IF IsRaise(a) THEN a
    ELSE IF IsRaise(b) THEN b
    ELSE Rat(a.num * b.num, a.den * b.den)

\* a < b and a > b on numbers.
Lt(a, b) == a.num * b.den < b.num * a.den
Gt(a, b) == Lt(b, a)

\* dict.get(key, default)
DictGet(d, key, default) == IF key \in DOMAIN d THEN d[key] ELSE default
EmptyDict == << >>

\* text[:k]: a negative k counts from the end.
SliceTo(text, k) ==
    IF k >= 0
    THEN SubSeq(text, 1, IF k < Len(text) THEN k ELSE Len(text))
    ELSE SubSeq(text, 1, IF Len(text) + k > 0 THEN Len(text) + k ELSE 0)

Digits == <<"0", "1", "2", "3", "4", "5", "6", "7", "8", "9">>

RECURSIVE NatToStr(_)
NatToStr(n) ==
    IF n < 10 THEN <<Digits[n + 1]>>
    ELSE Append(NatToStr(n \div 10), Digits[(n % 10) + 1])

\* f"{int(n)}" of an integer.
IntToStr(n) == IF n < 0 THEN <<"-">> \o NatToStr(-n) ELSE NatToStr(n)

----------------------------------------------------------------------------
(* The imported tables.                                                    *)

EMOJIS ==
    [good |-> "emoji:good", moderate |-> "emoji:moderate",
     critical |-> "emoji:critical", offline |-> "emoji:offline"]

MetricTypes == {"cpu", "ram", "disk", "ping", "players"}

\* Threshold tables: each known type has its pair, good below moderate; a
\* type may be unknown to the table.
ThresholdTables ==
    { [cpu |-> [good |-> 50, moderate |-> 80],
       ram |-> [good |-> 60, moderate |-> 85],
       disk |-> [good |-> 70, moderate |-> 90],
       ping |-> [good |-> 100, moderate |-> 300],
       players |-> [good |-> 20, moderate |-> 40]],
      [ram |-> [good |-> 70, moderate |-> 90],
       ping |-> [good |-> 1000, moderate |-> 2000]] }

----------------------------------------------------------------------------
(* utils.py, the functions without a loop.                                 *)

DefaultGood == 50
DefaultModerate == 80

\* Fault variant of get_health_emoji: <= where the source has <.
get_health_emoji_inclusive(value, metric_type) ==
    IF value = None THEN EMOJIS.offline
    ELSE
        LET thresholds == DictGet(HEALTH_THRESHOLDS, metric_type, EmptyDict)
            good_threshold == DictGet(thresholds, "good", DefaultGood)
            moderate_threshold == DictGet(thresholds, "moderate", DefaultModerate)
        IN  IF ~Lt(Num(good_threshold), value) THEN EMOJIS.good
            ELSE IF ~Lt(Num(moderate_threshold), value) THEN EMOJIS.moderate
            ELSE EMOJIS.critical

get_health_emoji(value, metric_type) ==
    IF value = None THEN EMOJIS.offline
    ELSE
        LET thresholds == DictGet(HEALTH_THRESHOLDS, metric_type, EmptyDict)
            good_threshold == DictGet(thresholds, "good", DefaultGood)
            moderate_threshold == DictGet(thresholds, "moderate", DefaultModerate)
        IN  IF Lt(value, Num(good_threshold)) THEN EMOJIS.good
            ELSE IF Lt(value, Num(moderate_threshold)) THEN EMOJIS.moderate
            ELSE EMOJIS.critical

SecondsPerMinute == 60
SecondsPerHour == 3600
SecondsPerDay == 86400

\* Fault variant of format_uptime: the minutes of the hour form are rounded.
format_uptime_rounded(seconds) ==
    IF seconds < SecondsPerMinute THEN IntToStr(seconds) \o <<"s">>
    ELSE IF seconds < SecondsPerHour THEN
        IntToStr(seconds \div SecondsPerMinute) \o <<"m", " ">>
            \o IntToStr(seconds % SecondsPerMinute) \o <<"s">>
    ELSE IF seconds < SecondsPerDay THEN
        IntToStr(seconds \div SecondsPerHour) \o <<"h", " ">>
            \o IntToStr(((seconds % SecondsPerHour) + 30) \div SecondsPerMinute)
            \o <<"m">>
    ELSE
        IntToStr(seconds \div SecondsPerDay) \o <<"d", " ">>
            \o IntToStr((seconds % SecondsPerDay) \div SecondsPerHour) \o <<"h">>

format_uptime(seconds) ==
    IF seconds < SecondsPerMinute THEN IntToStr(seconds) \o <<"s">>
    ELSE IF seconds < SecondsPerHour THEN
        IntToStr(seconds \div SecondsPerMinute) \o <<"m", " ">>
            \o IntToStr(seconds % SecondsPerMinute) \o <<"s">>
    ELSE IF seconds < SecondsPerDay THEN
        IntToStr(seconds \div SecondsPerHour) \o <<"h", " ">>
            \o IntToStr((seconds % SecondsPerHour) \div SecondsPerMinute) \o <<"m">>
    ELSE
        IntToStr(seconds \div SecondsPerDay) \o <<"d", " ">>
            \o IntToStr((seconds % SecondsPerDay) \div SecondsPerHour) \o <<"h">>

Ellipsis == <<".", ".", ".">>

\* Fault variant of truncate_string: the slice forgets the 3 of the ellipsis.
truncate_string_keep_max(text, max_length) ==
    IF Len(text) <= max_length THEN text
    ELSE SliceTo(text, max_length) \o Ellipsis

truncate_string(text, max_length) ==
    IF Len(text) <= max_length THEN text
    ELSE SliceTo(text, max_length - 3) \o Ellipsis

\* Python's a / b.
TrueDiv(a, b) ==
    IF b.num = 0 THEN ZeroDivisionError
    ELSE Rat(a.num * b.den, a.den * b.num)

\* Fault variant of calculate_percentage: no test of total == 0.
calculate_percentage_unguarded(value, total) ==
    Mul(TrueDiv(Num(value), Num(total)), Num(100))

calculate_percentage(value, total) ==
    IF total = 0 THEN Num(0)
    ELSE Mul(TrueDiv(Num(value), Num(total)), Num(100))

----------------------------------------------------------------------------
(* Calls of the functions without a loop: the arguments are drawn when the *)
(* call is made, the action is the whole function.                         *)

Alphabet == {"a", "."}

RECURSIVE Texts(_)
Texts(n) ==
    IF n = 0 THEN {<< >>}
    ELSE LET shorter == Texts(n - 1)
         IN  shorter \cup {Append(t, c) : t \in shorter, c \in Alphabet}

MetricValues ==
    {None} \cup {Num(5 * k) : k \in 0..MaxValueSteps}
           \cup {Rat(10 * k + 1, 2) : k \in 0..MaxValueSteps}

UptimeInputs ==
    { d * SecondsPerDay + h * SecondsPerHour + m * SecondsPerMinute + s :
        d \in 0..MaxDays, h \in {0, 1, 23}, m \in {0, 1, 2, 59}, s \in {0, 1, 5, 45, 59} }

UtilCalls ==
    [fn : {"get_health_emoji"}, value : MetricValues,
     metric_type : MetricTypes \cup {"unknown"}]
    \cup [fn : {"format_uptime"}, seconds : UptimeInputs]
    \cup [fn : {"truncate_string"}, text : Texts(MaxTextLen), max_length : 0..MaxLength]
    \cup [fn : {"calculate_percentage"}, value : -MaxOperand..MaxOperand,
          total : -MaxOperand..MaxOperand]

Idle ==
    /\ pc = "idle"
    /\ node = None
    /\ system_data = None
    /\ critical_count = 0
    /\ moderate_count = 0
    /\ total_metrics = 0
    /\ online_nodes = 0
    /\ zero_allocated_met = FALSE

InitUtils ==
    /\ HEALTH_THRESHOLDS \in ThresholdTables
    /\ call \in UtilCalls
    /\ ret = NoReturn
    /\ Idle

CallGetHealthEmoji ==
    /\ call.fn = "get_health_emoji"
    /\ ret = NoReturn
    /\ ret' = Return(get_health_emoji(call.value, call.metric_type))
    /\ UNCHANGED <<HEALTH_THRESHOLDS, call, healthVars>>

CallFormatUptime ==
    /\ call.fn = "format_uptime"
    /\ ret = NoReturn
    /\ ret' = Return(format_uptime(call.seconds))
    /\ UNCHANGED <<HEALTH_THRESHOLDS, call, healthVars>>

CallTruncateString ==
    /\ call.fn = "truncate_string"
    /\ ret = NoReturn
    /\ ret' = Return(truncate_string(call.text, call.max_length))
    /\ UNCHANGED <<HEALTH_THRESHOLDS, call, healthVars>>

CallCalculatePercentage ==
    /\ call.fn = "calculate_percentage"
    /\ ret = NoReturn
    /\ ret' = Outcome(calculate_percentage(call.value, call.total))
    /\ UNCHANGED <<HEALTH_THRESHOLDS, call, healthVars>>

NextUtils ==
    \/ CallGetHealthEmoji
    \/ CallFormatUptime
    \/ CallTruncateString
    \/ CallCalculatePercentage

SpecUtils == InitUtils /\ [][NextUtils]_vars

Returned(fn) == call.fn = fn /\ ret # NoReturn

----------------------------------------------------------------------------
(* get_overall_health(lavalink_data, system_data).  One action per         *)
(* statement group of the source.  The for loop takes the records of       *)
(* lavalink_data one by one: NextNode binds the next record, whatever it   *)
(* is, and LoopExit is the end of the list; system_data is unread until    *)
(* line 75 tests it, and is drawn there.                                   *)

\* stats.cpu is a fraction of 1; used and allocated are byte counts.
CpuLoads == {Rat(10, 100), Rat(60, 100), Rat(90, 100)}
MemoryStats ==
    { [used |-> 1, allocated |-> 4], [used |-> 3, allocated |-> 4],
      [used |-> 4, allocated |-> 4], [used |-> 0, allocated |-> 0] }
ZeroOrFull == {[used |-> 0, allocated |-> 0], [used |-> 4, allocated |-> 4]}
Pings == {None, Num(20), Num(150), Num(999)}

StatsRecords == [cpu : CpuLoads, memory : MemoryStats]

\* Node records: online ones with every stats and ping combination, with and
\* without the ping key; records that are not online, with and without the
\* online key.
NodeRecords ==
    [online : {TRUE}, stats : StatsRecords, ping : Pings]
    \cup [online : {TRUE}, stats : StatsRecords]
    \cup [online : {FALSE}, stats : [cpu : {Rat(90, 100)}, memory : ZeroOrFull],
          ping : {None}]
    \cup [stats : [cpu : {Rat(90, 100)}, memory : ZeroOrFull], ping : {Num(20)}]

Percents == {Num(10), Num(75), Num(95)}
SystemRecords ==
    [cpu_percent : Percents, memory_percent : Percents, disk_percent : Percents]

Unread == [unread |-> TRUE]

Init ==
    /\ HEALTH_THRESHOLDS \in ThresholdTables
    /\ call = [fn |-> "get_overall_health"]
    /\ ret = NoReturn
    /\ pc = "loop"
    /\ node = None
    /\ system_data = Unread
    /\ critical_count = 0
    /\ moderate_count = 0
    /\ total_metrics = 0
    /\ online_nodes = 0
    /\ zero_allocated_met = FALSE

\* if e == EMOJIS['critical']: critical_count += 1
\* elif e == EMOJIS['moderate']: moderate_count += 1
\* Fault variant of CriticalStep: a moderate emoji counts as critical too.
CriticalStepBoth(e) == IF e = EMOJIS.critical \/ e = EMOJIS.moderate THEN 1 ELSE 0

CriticalStep(e) == IF e = EMOJIS.critical THEN 1 ELSE 0

ModerateStep(e) ==
    IF e = EMOJIS.critical THEN 0 ELSE IF e = EMOJIS.moderate THEN 1 ELSE 0

\* One check: its emoji e is compared, the counters and total_metrics updated.
Tally(e, next) ==
    /\ critical_count' = critical_count + CriticalStep(e)
    /\ moderate_count' = moderate_count + ModerateStep(e)
    /\ total_metrics' = total_metrics + 1
    /\ pc' = next

\* for node in lavalink_data: if node.get('online', False):
NextNode ==
    /\ pc = "loop"
    /\ \E n \in NodeRecords :
        /\ node' = n
        /\ IF DictGet(n, "online", FALSE)
           THEN /\ online_nodes < MaxOnlineNodes
                /\ online_nodes' = online_nodes + 1
                /\ zero_allocated_met' =
                       (zero_allocated_met \/ n.stats.memory.allocated = 0)
                /\ pc' = "cpu"
           ELSE /\ pc' = "loop"
                /\ UNCHANGED <<online_nodes, zero_allocated_met>>
    /\ UNCHANGED <<HEALTH_THRESHOLDS, call, ret, system_data, critical_count,
                   moderate_count, total_metrics>>

\* The list is exhausted; nothing reads the loop variable after the loop.
LoopExit ==
    /\ pc = "loop"
    /\ pc' = "system"
    /\ node' = None
    /\ UNCHANGED <<HEALTH_THRESHOLDS, call, ret, system_data, critical_count,
                   moderate_count, total_metrics, online_nodes, zero_allocated_met>>

CpuCheck ==
    /\ pc = "cpu"
    /\ LET stats == node.stats
       IN  Tally(get_health_emoji(Mul(stats.cpu, Num(100)), "cpu"), "ram")
    /\ UNCHANGED <<HEALTH_THRESHOLDS, call, ret, node, system_data,
                   online_nodes, zero_allocated_met>>

\* node.get('ping', 999)
PingValue(n) == DictGet(n, "ping", Num(999))

\* Fault variant of RamPercent: allocated == 0 yields 0 instead of raising.
RamPercentGuarded(stats) ==
    IF stats.memory.allocated = 0 THEN Num(0)
    ELSE Mul(TrueDiv(Num(stats.memory.used), Num(stats.memory.allocated)), Num(100))

RamPercent(stats) ==
    Mul(TrueDiv(Num(stats.memory.used), Num(stats.memory.allocated)), Num(100))

RamCheck ==
    /\ pc = "ram"
    /\ LET ram_percent == RamPercent(node.stats)
       IN  IF IsRaise(ram_percent)
           THEN /\ ret' = ram_percent
                /\ pc' = "done"
                /\ UNCHANGED <<critical_count, moderate_count, total_metrics>>
           ELSE /\ Tally(get_health_emoji(ram_percent, "ram"), "ping")
                /\ UNCHANGED ret
    /\ UNCHANGED <<HEALTH_THRESHOLDS, call, node, system_data,
                   online_nodes, zero_allocated_met>>

\* The last statement of the loop body: the iteration reads node no more.
PingCheck ==
    /\ pc = "ping"
    /\ Tally(get_health_emoji(PingValue(node), "ping"), "loop")
    /\ node' = None
    /\ UNCHANGED <<HEALTH_THRESHOLDS, call, ret, system_data,
                   online_nodes, zero_allocated_met>>

\* if system_data:
SystemTest ==
    /\ pc = "system"
    /\ \E sd \in SystemRecords \cup {None} :
        /\ system_data' = sd
        /\ pc' = IF sd # None THEN "system_cpu" ELSE "decide"
    /\ UNCHANGED <<HEALTH_THRESHOLDS, call, ret, node, critical_count,
                   moderate_count, total_metrics, online_nodes, zero_allocated_met>>

SystemCpuCheck ==
    /\ pc = "system_cpu"
    /\ Tally(get_health_emoji(system_data.cpu_percent, "cpu"), "system_ram")
    /\ UNCHANGED <<HEALTH_THRESHOLDS, call, ret, node, system_data,
                   online_nodes, zero_allocated_met>>

SystemRamCheck ==
    /\ pc = "system_ram"
    /\ Tally(get_health_emoji(system_data.memory_percent, "ram"), "system_disk")
    /\ UNCHANGED <<HEALTH_THRESHOLDS, call, ret, node, system_data,
                   online_nodes, zero_allocated_met>>

SystemDiskCheck ==
    /\ pc = "system_disk"
    /\ Tally(get_health_emoji(system_data.disk_percent, "disk"), "decide")
    /\ UNCHANGED <<HEALTH_THRESHOLDS, call, ret, node, system_data,
                   online_nodes, zero_allocated_met>>

\* Fault variant of OverallStatus: >= where the source has >.
OverallStatusInclusive(c, m, t) ==
    IF t = 0 THEN Return("critical")
    ELSE
        LET critical_ratio == TrueDiv(Num(c), Num(t))
            moderate_ratio == TrueDiv(Num(m), Num(t))
        IN  IF ~Lt(critical_ratio, Rat(3, 10)) THEN Return("critical")
            ELSE IF ~Lt(critical_ratio, Rat(1, 10)) \/ ~Lt(moderate_ratio, Rat(5, 10))
                 THEN Return("moderate")
            ELSE Return("good")

\* Fault variant of OverallStatus: no test of total_metrics == 0.
OverallStatusUnguarded(c, m, t) ==
    LET critical_ratio == TrueDiv(Num(c), Num(t))
        moderate_ratio == TrueDiv(Num(m), Num(t))
    IN  IF IsRaise(critical_ratio) THEN critical_ratio
        ELSE IF Gt(critical_ratio, Rat(3, 10)) THEN Return("critical")
        ELSE IF Gt(critical_ratio, Rat(1, 10)) \/ Gt(moderate_ratio, Rat(5, 10))
             THEN Return("moderate")
        ELSE Return("good")

\* Fault variant of OverallStatus: the moderate ratio is tested first.
OverallStatusElseCritical(c, m, t) ==
    IF t = 0 THEN Return("critical")
    ELSE
        LET critical_ratio == TrueDiv(Num(c), Num(t))
            moderate_ratio == TrueDiv(Num(m), Num(t))
        IN  IF Gt(moderate_ratio, Rat(5, 10)) THEN Return("moderate")
            ELSE IF Gt(critical_ratio, Rat(3, 10)) THEN Return("critical")
            ELSE IF Gt(critical_ratio, Rat(1, 10)) THEN Return("moderate")
            ELSE Return("good")

\* Lines 97-109 on the counters c, m and the total t.  The ratios 0.3, 0.1
\* and 0.5 are exact; for the small integers of a call the float comparison
\* decides the same way.
OverallStatus(c, m, t) ==
    IF t = 0 THEN Return("critical")
    ELSE
        LET critical_ratio == TrueDiv(Num(c), Num(t))
            moderate_ratio == TrueDiv(Num(m), Num(t))
        IN  IF Gt(critical_ratio, Rat(3, 10)) THEN Return("critical")
            ELSE IF Gt(critical_ratio, Rat(1, 10)) \/ Gt(moderate_ratio, Rat(5, 10))
                 THEN Return("moderate")
            ELSE Return("good")

Decide ==
    /\ pc = "decide"
    /\ ret' = OverallStatus(critical_count, moderate_count, total_metrics)
    /\ pc' = "done"
    /\ UNCHANGED <<HEALTH_THRESHOLDS, call, node, system_data, critical_count,
                   moderate_count, total_metrics, online_nodes, zero_allocated_met>>

Next ==
    \/ NextNode
    \/ LoopExit
    \/ CpuCheck
    \/ RamCheck
    \/ PingCheck
    \/ SystemTest
    \/ SystemCpuCheck
    \/ SystemRamCheck
    \/ SystemDiskCheck
    \/ Decide

Spec == Init /\ [][Next]_vars

----------------------------------------------------------------------------
(* Claims about get_overall_health, checked under Spec.                    *)

Online(n) == n # None /\ DictGet(n, "online", FALSE)
ReturnedStatus == pc = "done" /\ "value" \in DOMAIN ret
SystemSupplied == system_data # None /\ system_data # Unread

\* C1: with total_metrics > 0 the status is critical when critical_count /
\* total_metrics > 0.3, else moderate when critical_count / total_metrics >
\* 0.1 or moderate_count / total_metrics > 0.5, else good; the comparisons
\* are strict, so a ratio equal to 0.3, 0.1 or 0.5 does not trigger its rule.
C1_RatioDecision ==
    (ReturnedStatus /\ total_metrics > 0) =>
        ret.value =
            IF 10 * critical_count > 3 * total_metrics THEN "critical"
            ELSE IF \/ 10 * critical_count > total_metrics
                    \/ 2 * moderate_count > total_metrics
                 THEN "moderate"
            ELSE "good"

\* 3 critical and 15 moderate of 30 checks, ratios exactly 0.1 and 0.5: good.
C1_Witness ==
    /\ ReturnedStatus
    /\ total_metrics = 30
    /\ critical_count = 3
    /\ moderate_count = 15
    /\ ret.value = "good"

\* C3: when no check is performed (no online node record, no system record)
\* the status is critical; with total_metrics == 0 the call never returns
\* good or moderate and never divides.
C3_NoCheckIsCritical ==
    /\ (pc = "done" /\ online_nodes = 0 /\ system_data = None)
          => (total_metrics = 0 /\ ret = Return("critical"))
    /\ (pc = "done" /\ total_metrics = 0) => ret = Return("critical")

\* A call without online nodes and without a system record has returned.
C3_Witness ==
    /\ pc = "done"
    /\ online_nodes = 0
    /\ system_data = None
    /\ ret = Return("critical")

\* What the counters say at each position of the loop body.
C7_Positions ==
    /\ critical_count + moderate_count <= total_metrics
    /\ pc = "loop" => total_metrics = 3 * online_nodes
    /\ pc = "cpu" => total_metrics = 3 * (online_nodes - 1)
    /\ pc = "ram" => total_metrics = 3 * (online_nodes - 1) + 1
    /\ pc = "ping" => total_metrics = 3 * (online_nodes - 1) + 2
    /\ (pc = "decide" \/ ReturnedStatus) =>
          total_metrics = 3 * online_nodes + (IF SystemSupplied THEN 3 ELSE 0)

\* What one step does to the counters.
C7_Step ==
    /\ total_metrics' \in {total_metrics, total_metrics + 1}
    /\ total_metrics' = total_metrics =>
          (critical_count' = critical_count /\ moderate_count' = moderate_count)
    /\ total_metrics' = total_metrics + 1 =>
          <<critical_count' - critical_count, moderate_count' - moderate_count>>
              \in {<<0, 0>>, <<1, 0>>, <<0, 1>>}
    /\ (pc = "loop" /\ pc' = "loop") =>
          (online_nodes' = online_nodes /\ total_metrics' = total_metrics)

\* C7: an online node record contributes exactly three checks, a record
\* that is not online none, a supplied system record three more, so at the
\* end total_metrics = 3 * online nodes + (3 if a system record is supplied);
\* at every step critical_count + moderate_count <= total_metrics and a
\* check increments at most one of critical_count and moderate_count.
C7_CheckCounting == [](C7_Positions) /\ [][C7_Step]_vars

\* Two online nodes and a system record: nine checks, each one counted.
C7_Witness ==
    /\ ReturnedStatus
    /\ online_nodes = 2
    /\ SystemSupplied
    /\ total_metrics = 9
    /\ critical_count = 4
    /\ moderate_count = 5

PingAbsent(n) == "ping" \notin DOMAIN n \/ n.ping = None

\* C8: the ping check of an online node whose ping is absent (key missing,
\* or null) is classified and counted like a ping of 999.
C8_AbsentPingCountsAs999 ==
    [][ (pc = "ping" /\ PingAbsent(node)) =>
          LET e == get_health_emoji(Num(999), "ping")
          IN  /\ critical_count' = critical_count + CriticalStep(e)
              /\ moderate_count' = moderate_count + ModerateStep(e) ]_vars

\* C9: once an online node record with stats.memory.allocated == 0 is met,
\* the call is before that node's RAM division or has ended in the division
\* error, with no status; only this raises; a record that is not online
\* raises nothing, whatever its allocated.
C9_ZeroAllocatedRaises ==
    /\ zero_allocated_met =>
          \/ pc \in {"cpu", "ram"} /\ Online(node)
          \/ pc = "done" /\ ret = ZeroDivisionError
    /\ ret # NoReturn /\ ~ReturnedStatus =>
          /\ ret = ZeroDivisionError
          /\ zero_allocated_met
          /\ Online(node)
          /\ node.stats.memory.allocated = 0
    /\ (pc = "loop" /\ node # None) =>
          (~Online(node) /\ ret = NoReturn /\ ~zero_allocated_met)

\* Two online nodes were counted in full, the third has allocated == 0.
C9_Witness ==
    /\ pc = "done"
    /\ ret = ZeroDivisionError
    /\ online_nodes = 3
    /\ total_metrics = 7
    /\ critical_count = 7

Rank(status) ==
    CASE status = "good" -> 0 [] status = "moderate" -> 1 [] status = "critical" -> 2

\* The rank of the status of a call whose checks tally to c, m of t.
RankOf(c, m, t) == Rank(OverallStatus(c, m, t).value)

\* One check that was counted neither critical nor moderate becomes
\* moderate or critical: the status does not get better.
WorseFromGood ==
    total_metrics > critical_count + moderate_count =>
        /\ RankOf(critical_count, moderate_count + 1, total_metrics) >= Rank(ret.value)
        /\ RankOf(critical_count + 1, moderate_count, total_metrics) >= Rank(ret.value)

\* One moderate check becomes critical: the status does not get better.
WorseFromModerate ==
    moderate_count > 0 =>
        RankOf(critical_count + 1, moderate_count - 1, total_metrics) >= Rank(ret.value)

\* C10 as stated: the status is monotone under every worsening of one check.
C10_MonotoneInEveryWorsening ==
    ReturnedStatus => (WorseFromGood /\ WorseFromModerate)

\* C10 as amended: the status is monotone when one check classified good
\* becomes moderate or critical.
C10_MonotoneFromGood == ReturnedStatus => WorseFromGood

\* Three good checks return good; with one of them critical, critical.
C10_Witness ==
    /\ ReturnedStatus
    /\ total_metrics = 3
    /\ critical_count = 0
    /\ moderate_count = 0
    /\ ret.value = "good"
    /\ RankOf(1, 0, 3) = 2

----------------------------------------------------------------------------
(* Claims about the functions without a loop, checked under SpecUtils.     *)

\* The threshold pair the claim speaks of: the table's pair of the type, 50
\* and 80 when the table does not know the type.
PairOf(metric_type) ==
    IF metric_type \in DOMAIN HEALTH_THRESHOLDS
    THEN HEALTH_THRESHOLDS[metric_type]
    ELSE [good |-> 50, moderate |-> 80]

\* C2: get_health_emoji never fails and returns exactly one of four emojis:
\* offline for an absent value; otherwise good when value < good, moderate
\* when good <= value < moderate, critical when value >= moderate.
C2_EmojiByThreshold ==
    Returned("get_health_emoji") =>
        LET v == call.value
            pair == PairOf(call.metric_type)
        IN  /\ "value" \in DOMAIN ret
            /\ ret.value \in {EMOJIS.good, EMOJIS.moderate, EMOJIS.critical, EMOJIS.offline}
            /\ v = None => ret.value = EMOJIS.offline
            /\ v # None =>
                /\ v.num < pair.good * v.den => ret.value = EMOJIS.good
                /\ (v.num >= pair.good * v.den /\ v.num < pair.moderate * v.den)
                      => ret.value = EMOJIS.moderate
                /\ v.num >= pair.moderate * v.den => ret.value = EMOJIS.critical

\* A value exactly on the default good threshold of a type the table does
\* not know has been classified moderate.
C2_Witness ==
    /\ Returned("get_health_emoji")
    /\ call.metric_type \notin DOMAIN HEALTH_THRESHOLDS
    /\ call.value = Num(50)
    /\ ret = Return(EMOJIS.moderate)

\* C4: for max_length >= 3, truncate_string returns the text unchanged when
\* it fits, else its first max_length - 3 characters followed by "...", of
\* length exactly max_length; the result is never longer than max_length.
C4_TruncateLength ==
    (Returned("truncate_string") /\ call.max_length >= 3) =>
        LET text == call.text
            n == call.max_length
            out == ret.value
        IN  /\ Len(text) <= n => out = text
            /\ Len(text) > n =>
                /\ Len(out) = n
                /\ \A i \in 1..(n - 3) : out[i] = text[i]
                /\ \A i \in (n - 2)..n : out[i] = "."
            /\ Len(out) <= n

\* A text longer than max_length has been cut and keeps some of its characters.
C4_Witness ==
    /\ Returned("truncate_string")
    /\ call.max_length = 5
    /\ call.text = <<"a", "a", ".", "a", "a", "a">>
    /\ ret = Return(<<"a", "a", ".", ".", ".">>)

\* C5: format_uptime of a non-negative integer n picks its form by range
\* and prints truncated components: "{n}s" below 60; "{m}m {s}s" with
\* 60*m + s = n, 0 <= s < 60 below 3600; "{h}h {m}m" with h the whole hours
\* and m the whole minutes of the rest below 86400; else "{d}d {h}h" with d
\* the whole days and h the whole hours of the rest.
C5_UptimeForm ==
    Returned("format_uptime") =>
        LET n == call.seconds
            out == ret.value
        IN  /\ n < 60 => out = NatToStr(n) \o <<"s">>
            /\ (60 <= n /\ n < 3600) =>
                \E m \in 1..59, s \in 0..59 :
                    /\ 60 * m + s = n
                    /\ out = NatToStr(m) \o <<"m", " ">> \o NatToStr(s) \o <<"s">>
            /\ (3600 <= n /\ n < 86400) =>
                \E h \in 1..23, m \in 0..59 :
                    /\ n - 3600 * h - 60 * m \in 0..59
                    /\ out = NatToStr(h) \o <<"h", " ">> \o NatToStr(m) \o <<"m">>
            /\ n >= 86400 =>
                \E d \in 1..(MaxDays + 1), h \in 0..23 :
                    /\ n - 86400 * d - 3600 * h \in 0..3599
                    /\ out = NatToStr(d) \o <<"d", " ">> \o NatToStr(h) \o <<"h">>

\* 1 hour 59 minutes 59 seconds has been printed with its minutes cut, not rounded.
C5_Witness ==
    /\ Returned("format_uptime")
    /\ call.seconds = 7199
    /\ ret = Return(<<"1", "h", " ", "5", "9", "m">>)

\* C6: calculate_percentage returns 0.0 when total == 0, raising nothing,
\* and (value / total) * 100 for every other total.
C6_PercentageGuard ==
    Returned("calculate_percentage") =>
        /\ "value" \in DOMAIN ret
        /\ call.total = 0 => ret.value = Num(0)
        /\ call.total # 0 =>
            /\ ret.value.den > 0
            /\ ret.value.num * call.total = 100 * call.value * ret.value.den

\* A call with total == 0 and a value that is not 0 has returned 0.
C6_Witness ==
    /\ Returned("calculate_percentage")
    /\ call.total = 0
    /\ call.value = 5
    /\ ret = Return(Num(0))

====
